---------------------------- MODULE Spec2Model ----------------------------
(***************************************************************************)
(* A model of the bevy_edge_detection plugin (src/src/lib.rs): the frame   *)
(* cycle of the render sub-app as far as the plugin registers work in it   *)
(* (EdgeDetectionPlugin::build):                                           *)
(*                                                                         *)
(*   main world update  ->  ExtractSchedule (extract_edge_detection_       *)
(*   settings)  ->  RenderSet::Prepare (prepare_edge_detection_pipelines)  *)
(*   ->  the pipeline cache's queue is processed  ->  the render graph     *)
(*   runs EdgeDetectionNode once per matching view  ->  end of frame.      *)
(*                                                                         *)
(* The render world is retained: components the plugin inserts on a view's *)
(* render entity stay there until the render entity is despawned.          *)
(*                                                                         *)
(* Spec is that frame cycle.  NodeSpec is the same cycle with the inputs   *)
(* of EdgeDetectionNode::run noted beside its records.  KernelSpec applies *)
(* the pure parts to all their inputs: specialize to every key, the        *)
(* conversion of EdgeDetection into EdgeDetectionUniform to every value,   *)
(* and the fragment shader of a variant to every pixel.                    *)
(***************************************************************************)
EXTENDS Integers, Sequences, FiniteSets, TLC

\* ------------------------------------------------------------------ bounds

\* How many changes the host application makes to the views over a run.
MaxChanges == 1

\* The views (cameras) of the scene.
Views == {1, 2}

\* Option<T> as a set with at most one element: {} is None, {x} is Some(x).
Some(x) == {x}
Unwrap(o) == CHOOSE x \in o : TRUE

\* No CachedRenderPipelineId (ids count from 1).
NoId == 0

\* ------------------------------------------------------------- data model

\* The feature toggles of an EdgeDetection component the host chooses among.
\* (the default: all on; all off)
EdgeDetection ==
    { [enable_depth |-> TRUE, enable_normal |-> TRUE, enable_color |-> TRUE],
      [enable_depth  |-> FALSE, enable_normal |-> FALSE,
       enable_color  |-> FALSE] }

\* impl Default for EdgeDetection
EdgeDetectionDefault ==
    [enable_depth |-> TRUE, enable_normal |-> TRUE, enable_color |-> TRUE]

\* impl Default for EdgeDetection, the value parameters (in tenths); a Color
\* is a value of a colour space, here a grey level of 0..255.
EdgeDetectionDefaultParams ==
    [depth_threshold       |-> 10,
     normal_threshold      |-> 8,
     color_threshold       |-> 0,
     edge_color            |-> [space |-> "Srgba", level |-> 0],
     steep_angle_threshold |-> 5]

\* struct EdgeDetectionKey
EdgeDetectionKey ==
    [enable_depth : BOOLEAN, enable_normal : BOOLEAN, enable_color : BOOLEAN,
     hdr : BOOLEAN, multisampled : BOOLEAN]

\* EdgeDetectionKey::new
EdgeDetectionKeyNew(edge_detection, hdr, multisampled) ==
    [enable_depth  |-> edge_detection.enable_depth,
     enable_normal |-> edge_detection.enable_normal,
     enable_color  |-> edge_detection.enable_color,
     hdr           |-> hdr,
     multisampled  |-> multisampled]

\* The commands a non-skipped pass records on the render context.
PassCommands ==
    <<"begin_render_pass", "set_render_pipeline", "set_bind_group", "draw">>

\* What EdgeDetectionNode::run did for a view in the current frame.
NoPass ==
    [ran |-> FALSE, result |-> "none", drew |-> FALSE, commands |-> <<>>,
     source |-> {}, destination |-> {}, pipeline |-> NoId,
     layout |-> "none", main_texture |-> {}, skipped_at |-> "none",
     available |-> FALSE, flipped |-> FALSE, bind_group |-> <<>>,
     offsets |-> <<>>, render_pass |-> {}, draw |-> {}]

VARIABLES
    phase,       \* where the frame cycle stands
    supported,   \* DEPTH_TEXTURE_SAMPLING_SUPPORTED (a constant of the build)
    host_extracts, \* the application copies EdgeDetection to render entities
    changes,     \* changes the host application has made so far
    ed,          \* main world: the view's EdgeDetection component (an Option)
    synced,      \* the render entity the view's RenderEntity names exists
    hdr,         \* render world: ExtractedView.hdr of the view
    msaa,        \* render world: the view's Msaa != Msaa::Off
    r_ed,        \* render world: the view's EdgeDetection component (an Option)
    uniform,     \* render world: the view has an EdgeDetectionUniform
    extracted,   \* EdgeDetectionUniforms inserted for the view this frame
    pipeline_id, \* render world: the view's EdgeDetectionPipelineId, or NoId
    cache,       \* SpecializedRenderPipelines<EdgeDetectionPipeline>: key -> id
    pipelines,   \* PipelineCache: id -> [descriptor, state, errors]
    lookups,     \* the (key, id) pairs specialize returned over the run
    pass,        \* what the node did for the view this frame
    skipped,     \* the view's pass was skipped in an earlier frame
    diagnostics, \* how many times the info_once! diagnostic was emitted
    logged,      \* the info_once! call site has fired
    panicked,    \* a system panicked: the application is aborted
    params,      \* main world: the value parameters of a view's EdgeDetection
    snapshot,    \* the EdgeDetectionUniform extracted from them (an Option)
    fragment,    \* one invocation of the fragment shader (an Option)
    found        \* what the node was handed for the view (an Option)

vars == <<phase, supported, host_extracts, changes, ed, synced, hdr, msaa,
          r_ed, uniform, extracted, pipeline_id, cache, pipelines, lookups,
          pass, skipped, diagnostics, logged, panicked,
          params, snapshot, fragment, found>>

host_vars == <<ed, synced, hdr, msaa, r_ed>>
cache_vars == <<cache, pipelines, lookups>>
log_vars == <<diagnostics, logged>>
kernel_vars == <<params, snapshot, fragment, found>>
view_vars == <<phase, supported, host_extracts, changes, host_vars, uniform,
               extracted, pipeline_id, pass, skipped, log_vars, panicked>>
frame_vars == <<view_vars, cache_vars>>

FrameInit ==
    /\ phase = "main"
    /\ supported \in BOOLEAN
    /\ host_extracts \in BOOLEAN
    /\ changes = 0
    /\ ed \in [Views -> {{}, Some(EdgeDetectionDefault)}]
    /\ synced = [v \in Views |-> TRUE]
    /\ hdr = [v \in Views |-> FALSE]
    /\ msaa = [v \in Views |-> FALSE]
    /\ r_ed = [v \in Views |-> {}]
    /\ uniform = [v \in Views |-> FALSE]
    /\ extracted = [v \in Views |-> 0]
    /\ pipeline_id = [v \in Views |-> NoId]
    /\ cache = [k \in EdgeDetectionKey |-> NoId]
    /\ pipelines = <<>>
    /\ lookups = {}
    /\ pass = [v \in Views |-> NoPass]
    /\ skipped = [v \in Views |-> FALSE]
    /\ diagnostics = 0
    /\ logged = FALSE
    /\ panicked = FALSE

Init ==
    /\ FrameInit
    /\ params = EdgeDetectionDefaultParams
    /\ snapshot = {}
    /\ fragment = {}
    /\ found = [v \in Views |-> {}]


\* ------------------------------------------------------ pipeline variants

\* EdgeDetectionPipeline::bind_group_layout
bind_group_layout(multisampled) ==
    IF multisampled THEN "layout_with_msaa" ELSE "layout_without_msaa"

\* A specialization that compiles the colour channel into every variant.
shader_defs_always_color(key) ==
    (IF key.enable_depth  THEN <<"ENABLE_DEPTH">>  ELSE <<>>) \o
    (IF key.enable_normal THEN <<"ENABLE_NORMAL">> ELSE <<>>) \o
    <<"ENABLE_COLOR">> \o
    (IF key.multisampled  THEN <<"MULTISAMPLED">>  ELSE <<>>)

\* A specialization that pushes the depth and the normal definition under
\* each other's flag.
shader_defs_swapped(key) ==
    (IF key.enable_normal THEN <<"ENABLE_DEPTH">>  ELSE <<>>) \o
    (IF key.enable_depth  THEN <<"ENABLE_NORMAL">> ELSE <<>>) \o
    (IF key.enable_color  THEN <<"ENABLE_COLOR">>  ELSE <<>>) \o
    (IF key.multisampled  THEN <<"MULTISAMPLED">>  ELSE <<>>)

\* The shader definitions specialize pushes, in the order it pushes them.
shader_defs(key) ==
    (IF key.enable_depth  THEN <<"ENABLE_DEPTH">>  ELSE <<>>) \o
    (IF key.enable_normal THEN <<"ENABLE_NORMAL">> ELSE <<>>) \o
    (IF key.enable_color  THEN <<"ENABLE_COLOR">>  ELSE <<>>) \o
    (IF key.multisampled  THEN <<"MULTISAMPLED">>  ELSE <<>>)

\* A specialization that gives every variant the standard target format.
specialize_without_hdr(key) ==
    [layout        |-> bind_group_layout(key.multisampled),
     shader_defs   |-> shader_defs(key),
     entry_point   |-> "fragment",
     format        |-> "bevy_default",
     blend         |-> "None",
     depth_stencil |-> "None"]

\* EdgeDetectionPipeline::specialize: the RenderPipelineDescriptor of a key.
specialize(key) ==
    [layout        |-> bind_group_layout(key.multisampled),
     shader_defs   |-> shader_defs(key),
     entry_point   |-> "fragment",
     format        |-> IF key.hdr THEN "TEXTURE_FORMAT_HDR" ELSE "bevy_default",
     blend         |-> "None",
     depth_stencil |-> "None"]

\* A cache whose key leaves the HDR flag out of its hash and equality.
CacheLookupIgnoringHdr(c, key) ==
    LET k == [key EXCEPT !.hdr = FALSE]
    IN  IF c.cache[k] # NoId
        THEN [cache |-> c.cache, pipelines |-> c.pipelines, id |-> c.cache[k]]
        ELSE [cache     |-> [c.cache EXCEPT ![k] = Len(c.pipelines) + 1],
              pipelines |-> Append(c.pipelines,
                                   [descriptor |-> specialize(k),
                                    state      |-> "Queued",
                                    errors     |-> 0]),
              id        |-> Len(c.pipelines) + 1]

\* A cache that specializes on every request and replaces the key's entry.
CacheLookupNoReuse(c, key) ==
    [cache     |-> [c.cache EXCEPT ![key] = Len(c.pipelines) + 1],
     pipelines |-> Append(c.pipelines,
                          [descriptor |-> specialize(key),
                           state      |-> "Queued",
                           errors     |-> 0]),
     id        |-> Len(c.pipelines) + 1]

\* SpecializedRenderPipelines::specialize as prepare_edge_detection_pipelines
\* calls it: the id cached for the key, or, on the first request, the id of the
\* pipeline queued for the key's descriptor.  c = [cache, pipelines].
CacheLookup(c, key) ==
    IF c.cache[key] # NoId
    THEN [cache |-> c.cache, pipelines |-> c.pipelines, id |-> c.cache[key]]
    ELSE [cache     |-> [c.cache EXCEPT ![key] = Len(c.pipelines) + 1],
          pipelines |-> Append(c.pipelines,
                               [descriptor |-> specialize(key),
                                state      |-> "Queued",
                                errors     |-> 0]),
          id        |-> Len(c.pipelines) + 1]

\* PipelineCache::get_render_pipeline: Some only for a compiled pipeline.
get_render_pipeline(id) ==
    IF id \in 1..Len(pipelines) /\ pipelines[id].state = "Ok"
    THEN Some(pipelines[id].descriptor)
    ELSE {}

\* ------------------------------------------------------------- host world

\* The components of the view's render entity are gone with the entity.
ClearRenderEntity(v) ==
    /\ r_ed' = [r_ed EXCEPT ![v] = {}]
    /\ uniform' = [uniform EXCEPT ![v] = FALSE]
    /\ pipeline_id' = [pipeline_id EXCEPT ![v] = NoId]

HostStep ==
    /\ phase = "main"
    /\ ~panicked
    /\ UNCHANGED kernel_vars
    /\ changes < MaxChanges
    /\ changes' = changes + 1
    /\ UNCHANGED <<phase, supported, host_extracts, extracted, cache_vars,
                   pass, skipped, log_vars, panicked>>

\* The application inserts an EdgeDetection component on a view, or changes
\* the toggles of the one it has (the example's edge_detection_ui).
SetEdgeDetection(v, e) ==
    /\ HostStep
    /\ ed[v] # Some(e)
    /\ ed' = [ed EXCEPT ![v] = Some(e)]
    /\ UNCHANGED <<synced, hdr, msaa, r_ed, uniform, pipeline_id>>

\* The application removes the component.  SyncComponentPlugin<EdgeDetection>
\* then despawns the view's render entity and spawns a fresh one.
RemoveEdgeDetection(v) ==
    /\ HostStep
    /\ ed[v] # {}
    /\ ed' = [ed EXCEPT ![v] = {}]
    /\ synced' = [synced EXCEPT ![v] = TRUE]
    /\ ClearRenderEntity(v)
    /\ UNCHANGED <<hdr, msaa>>

\* The view's HDR flag or its MSAA state changes (ExtractedView.hdr, Msaa).
SetViewFormat(v, h, m) ==
    /\ HostStep
    /\ (h # hdr[v]) # (m # msaa[v])
    /\ hdr' = [hdr EXCEPT ![v] = h]
    /\ msaa' = [msaa EXCEPT ![v] = m]
    /\ UNCHANGED <<ed, synced, r_ed, uniform, pipeline_id>>

\* The render entity of the view goes away while the main-world entity keeps
\* its RenderEntity component.
DespawnRenderEntity(v) ==
    /\ HostStep
    /\ synced[v]
    /\ synced' = [synced EXCEPT ![v] = FALSE]
    /\ ClearRenderEntity(v)
    /\ UNCHANGED <<ed, hdr, msaa>>

\* The other systems of the ExtractSchedule.  The plugin's own extraction
\* inserts an EdgeDetectionUniform only (see Extract), so an EdgeDetection
\* component is on a render entity only in an application that copies it
\* there itself (host_extracts); such a system copies it in every frame.
HostExtract ==
    /\ phase = "main"
    /\ ~panicked
    /\ UNCHANGED kernel_vars
    /\ r_ed' = [v \in Views |->
                  IF host_extracts /\ synced[v] /\ ed[v] # {}
                  THEN ed[v] ELSE r_ed[v]]
    /\ phase' = "extract"
    /\ UNCHANGED <<supported, host_extracts, changes, ed, synced, hdr, msaa,
                   uniform, extracted, pipeline_id, cache_vars, pass,
                   skipped, log_vars, panicked>>

\* ------------------------------------------------------------ extraction

\* An extraction that visits every view, with or without the component.
ExtractQueryEveryView(v) == TRUE

\* Extract<Query<(RenderEntity, &EdgeDetection)>>: the main-world entities the
\* extraction loop visits.
ExtractQuery(v) == ed[v] # {}

\* commands.get_entity(entity) is Some: the render entity exists.
get_entity(v) == synced[v]

\* A diagnostic logged with info! instead: every time the site is reached.
info_every_time(fired, count) == count + 1

\* info_once!: the call site logs the first time it is reached only.
info_once(fired, count) == IF fired THEN count ELSE count + 1

\* EdgeDetectionUniform::extract_edge_detection_settings.  The commands of a
\* system are applied after it returns, so a panic in the loop leaves the
\* render world as it was.
Extract ==
    /\ phase = "extract"
    /\ ~panicked
    /\ UNCHANGED kernel_vars
    /\ IF ~supported
       THEN /\ diagnostics' = info_once(logged, diagnostics)
            /\ logged' = TRUE
            /\ extracted' = [v \in Views |-> 0]
            /\ UNCHANGED <<uniform, panicked>>
       ELSE IF \E v \in Views : ExtractQuery(v) /\ ~get_entity(v)
       THEN /\ panicked' = TRUE          \* .expect("... wasn't synced.")
            /\ UNCHANGED <<uniform, extracted, log_vars>>
       ELSE /\ uniform' = [v \in Views |-> uniform[v] \/ ExtractQuery(v)]
            /\ extracted' = [v \in Views |-> IF ExtractQuery(v) THEN 1 ELSE 0]
            /\ UNCHANGED <<panicked, log_vars>>
    /\ phase' = IF panicked' THEN phase ELSE "prepare"
    /\ UNCHANGED <<supported, host_extracts, changes, host_vars, pipeline_id,
                   cache_vars, pass, skipped>>

\* ----------------------------------------------------- pipeline preparation

\* A preparation that leaves out the views that hold a pipeline id already.
PrepareQueryOnlyNew(v) ==
    synced[v] /\ r_ed[v] # {} /\ pipeline_id[v] = NoId

\* Query<(Entity, &ExtractedView, &EdgeDetection, &Msaa)> over the render
\* world: the views prepare_edge_detection_pipelines visits.
PrepareQuery(v) == synced[v] /\ r_ed[v] # {}

\* The key prepare_edge_detection_pipelines builds for a view.
ViewKey(v) == EdgeDetectionKeyNew(Unwrap(r_ed[v]), hdr[v], msaa[v])

\* The orders a query may yield a set of views in.
Orders(S) ==
    {o \in [1..Cardinality(S) -> S] :
        \A i, j \in DOMAIN o : o[i] = o[j] => i = j}

\* A preparation whose views all look the cache up as it was when the system
\* started, each inserting for itself what it did not find there.
\* st = [cache, pipelines, ids, lookups]
RECURSIVE Unserialized(_, _, _)
Unserialized(order, st, start) ==
    IF order = <<>> THEN st
    ELSE LET v == Head(order)
             r == CacheLookup([cache |-> start.cache,
                               pipelines |-> st.pipelines], ViewKey(v))
             id == IF start.cache[ViewKey(v)] # NoId
                   THEN start.cache[ViewKey(v)] ELSE Len(st.pipelines) + 1
         IN  Unserialized(Tail(order),
                 [cache     |-> [st.cache EXCEPT ![ViewKey(v)] = id],
                  pipelines |-> r.pipelines,
                  ids       |-> [st.ids EXCEPT ![v] = id],
                  lookups   |-> st.lookups \cup {<<ViewKey(v), id>>}],
                 start)

PrepareLoopUnserialized(order, st) == Unserialized(order, st, st)

\* The loop of prepare_edge_detection_pipelines over the views in `order`.
\* st = [cache, pipelines, ids, lookups]
RECURSIVE PrepareLoop(_, _)
PrepareLoop(order, st) ==
    IF order = <<>> THEN st
    ELSE LET v == Head(order)
             r == CacheLookup([cache |-> st.cache, pipelines |-> st.pipelines],
                              ViewKey(v))
         IN  PrepareLoop(Tail(order),
                 [cache     |-> r.cache,
                  pipelines |-> r.pipelines,
                  ids       |-> [st.ids EXCEPT ![v] = r.id],
                  lookups   |-> st.lookups \cup {<<ViewKey(v), r.id>>}])

\* prepare_edge_detection_pipelines (RenderSet::Prepare)
Prepare ==
    /\ phase = "prepare"
    /\ ~panicked
    /\ UNCHANGED kernel_vars
    /\ \E order \in Orders({v \in Views : PrepareQuery(v)}) :
         LET st == PrepareLoop(order,
                               [cache |-> cache, pipelines |-> pipelines,
                                ids |-> pipeline_id, lookups |-> lookups])
         IN  /\ cache' = st.cache
             /\ pipelines' = st.pipelines
             /\ pipeline_id' = st.ids
             /\ lookups' = st.lookups
    /\ phase' = "queue"
    /\ UNCHANGED <<supported, host_extracts, changes, host_vars, uniform,
                   extracted, pass, skipped, log_vars, panicked>>

\* The outcomes of one attempt to create a queued pipeline: it is compiled, it
\* waits (its shader is not loaded yet) or its compilation fails.
QueueOutcomes == {"Ok", "Queued", "Err"}

\* A queue that takes up the pipelines whose compilation failed as well.
WaitingOrFailed(p) == p.state \in {"Queued", "Err"}

\* The pipelines the cache still has in its queue: a pipeline that is
\* compiled, or whose compilation failed, has left it for good.
Waiting(p) == p.state = "Queued"

\* One attempt on a pipeline; a failure is written to the error log.
Attempt(p, outcome) ==
    [p EXCEPT !.state = outcome,
              !.errors = IF outcome = "Err" THEN @ + 1 ELSE @]

\* PipelineCache processes its queue before the render graph runs.
ProcessQueue ==
    /\ phase = "queue"
    /\ ~panicked
    /\ UNCHANGED kernel_vars
    /\ LET queued == {i \in 1..Len(pipelines) : Waiting(pipelines[i])}
       IN  \E f \in [queued -> QueueOutcomes] :
             pipelines' = [i \in 1..Len(pipelines) |->
                             IF i \in queued
                             THEN Attempt(pipelines[i], f[i])
                             ELSE pipelines[i]]
    /\ phase' = "graph"
    /\ UNCHANGED <<supported, host_extracts, changes, host_vars, uniform,
                   extracted, pipeline_id, cache, lookups, pass, skipped,
                   log_vars, panicked>>

\* ---------------------------------------------------------- pass executor

\* EdgeDetectionNode::ViewQuery: ViewNodeRunner runs the node for a view whose
\* render entity has every component of the query, and leaves out the others.
\* Msaa, ViewTarget, ViewPrepassTextures and ViewUniformOffset come from the
\* renderer; DynamicUniformIndex<EdgeDetectionUniform> is given by
\* UniformComponentPlugin to the entities with an EdgeDetectionUniform;
\* EdgeDetectionPipelineId is inserted by prepare_edge_detection_pipelines.
ViewQuery(v) == synced[v] /\ uniform[v] /\ pipeline_id[v] # NoId

\* A write that hands out the current texture as source and as destination.
post_process_write_in_place(current) ==
    [source |-> current, destination |-> current, current |-> current]

\* ViewTarget::post_process_write on a view whose current main texture is
\* `current`: the source is the current texture, the destination the other
\* one, and the destination becomes the current texture.
post_process_write(current) ==
    [source |-> current, destination |-> 1 - current, current |-> 1 - current]

\* A bind group whose depth and normal textures are given in the other order.
bind_group_entries_swapped(post_process) ==
    <<[slot |-> "color",   buffer |-> Some(post_process.source)],
      [slot |-> "normal",  buffer |-> {}],
      [slot |-> "depth",   buffer |-> {}],
      [slot |-> "sampler", buffer |-> {}],
      [slot |-> "view",    buffer |-> {}],
      [slot |-> "effect",  buffer |-> {}]>>

\* BindGroupEntries::sequential of the node: the source view of the write,
\* the depth and the normal prepass, the pipeline's sampler, the binding of
\* the view uniforms and the binding of the effect's uniforms.
bind_group_entries(post_process) ==
    <<[slot |-> "color",   buffer |-> Some(post_process.source)],
      [slot |-> "depth",   buffer |-> {}],
      [slot |-> "normal",  buffer |-> {}],
      [slot |-> "sampler", buffer |-> {}],
      [slot |-> "view",    buffer |-> {}],
      [slot |-> "effect",  buffer |-> {}]>>

\* BindGroupLayoutEntries::sequential of the two layouts of from_world.
layout_entries(layout) ==
    IF layout = "layout_with_msaa"
    THEN <<[slot |-> "color",   type |-> "texture_2d"],
           [slot |-> "depth",   type |-> "texture_depth_2d_multisampled"],
           [slot |-> "normal",  type |-> "texture_2d_multisampled"],
           [slot |-> "sampler", type |-> "sampler"],
           [slot |-> "view",    type |-> "uniform_buffer, dynamic offset"],
           [slot |-> "effect",  type |-> "uniform_buffer, dynamic offset"]>>
    ELSE <<[slot |-> "color",   type |-> "texture_2d"],
           [slot |-> "depth",   type |-> "texture_depth_2d"],
           [slot |-> "normal",  type |-> "texture_2d"],
           [slot |-> "sampler", type |-> "sampler"],
           [slot |-> "view",    type |-> "uniform_buffer, dynamic offset"],
           [slot |-> "effect",  type |-> "uniform_buffer, dynamic offset"]>>

\* The dynamic offsets of set_bind_group for the view the node runs for:
\* view_uniform_index.offset and ed_uniform_index.index(), both components
\* of that view's query item.
dynamic_offsets(v) ==
    <<[slot |-> "view", view |-> v], [slot |-> "effect", view |-> v]>>

\* A render pass that attaches the depth prepass as its depth attachment.
render_pass_with_depth(post_process) ==
    [color_attachments |->
         <<[view |-> post_process.destination, resolve_target |-> "None"]>>,
     depth_stencil_attachment |-> "depth_texture"]

\* The RenderPassDescriptor of the node.
render_pass_descriptor(post_process) ==
    [color_attachments |->
         <<[view |-> post_process.destination, resolve_target |-> "None"]>>,
     depth_stencil_attachment |-> "None"]

\* render_pass.draw(0..3, 0..1): the vertex and the instance range of a draw
\* without an index buffer.
draw ==
    [vertices |-> <<0, 3>>, instances |-> <<0, 1>>, indexed |-> FALSE]

\* What the node finds when it runs for a view: whether the prepass textures
\* (ViewPrepassTextures.depth, .normal) and the bindings of the two uniform
\* buffers (ViewUniforms, ComponentUniforms<EdgeDetectionUniform>) are Some.
Resources ==
    [depth : BOOLEAN, normal : BOOLEAN,
     view_uniforms : BOOLEAN, ed_uniforms : BOOLEAN]

\* A chain that looks for the uniform bindings before the prepass textures.
FirstMissingUniformsFirst(pipeline, res) ==
    IF pipeline = {} THEN "pipeline"
    ELSE IF ~res.view_uniforms THEN "view_uniforms"
    ELSE IF ~res.ed_uniforms THEN "ed_uniforms"
    ELSE IF ~(res.depth /\ res.normal) THEN "prepass"
    ELSE "none"

\* A chain that looks for the depth prepass only, not for the normal prepass.
FirstMissingDepthOnly(pipeline, res) ==
    IF pipeline = {} THEN "pipeline"
    ELSE IF ~res.depth THEN "prepass"
    ELSE IF ~res.view_uniforms THEN "view_uniforms"
    ELSE IF ~res.ed_uniforms THEN "ed_uniforms"
    ELSE "none"

\* The let-else chain of EdgeDetectionNode::run: the first check that fails,
\* in the order the node makes them, or "none".
FirstMissing(pipeline, res) ==
    IF pipeline = {} THEN "pipeline"
    ELSE IF ~(res.depth /\ res.normal) THEN "prepass"
    ELSE IF ~res.view_uniforms THEN "view_uniforms"
    ELSE IF ~res.ed_uniforms THEN "ed_uniforms"
    ELSE "none"

\* A node that reports a missing prepass texture as an error.
RunResultErrOnPrepass(missing) == IF missing = "prepass" THEN "Err" ELSE "Ok"

\* What EdgeDetectionNode::run returns when it leaves at `missing`.
RunResult(missing) == "Ok"

\* EdgeDetectionNode::run for a view that finds `res`, and whose ViewTarget has
\* `current` as its main texture (the nodes that ran before in the view's
\* graph have flipped it or not): what it records.
NodeRun(v, res, current) ==
    LET missing == FirstMissing(get_render_pipeline(pipeline_id[v]), res)
        post_process == post_process_write(current)
    IN  IF missing # "none"
        THEN [NoPass EXCEPT !.ran = TRUE, !.result = RunResult(missing),
                            !.skipped_at = missing]
        ELSE [ran         |-> TRUE,
              result      |-> RunResult(missing),
              drew        |-> TRUE,
              commands    |-> PassCommands,
              source      |-> Some(post_process.source),
              destination |-> Some(post_process.destination),
              pipeline    |-> pipeline_id[v],
              layout      |-> bind_group_layout(msaa[v]),
              main_texture |-> Some(post_process.current),
              skipped_at  |-> "none",
              available   |-> FALSE,
              flipped     |-> post_process.current # current,
              bind_group  |-> bind_group_entries(post_process),
              offsets     |-> dynamic_offsets(v),
              render_pass |-> Some(render_pass_descriptor(post_process)),
              draw        |-> Some(draw)]

\* Everything the pass needs is there: the view's pipeline is compiled and
\* the four resources are Some.
AllAvailable(v, res) ==
    /\ pipeline_id[v] \in 1..Len(pipelines)
    /\ pipelines[pipeline_id[v]].state = "Ok"
    /\ res.depth /\ res.normal /\ res.view_uniforms /\ res.ed_uniforms

\* A node that is not run again for a view once it has skipped it.
ScheduledUnlessSkipped(v) == ViewQuery(v) /\ ~skipped[v]

\* The views the render graph runs the node for in a frame.
Scheduled(v) == ViewQuery(v)

\* ViewNodeRunner<EdgeDetectionNode> runs the node for a view; `available`
\* notes beside the node's record what was there for it.  A NodeRunError
\* returned by a node ends the run of the render graph, and the renderer
\* panics on it.
RunView(v, res, current) ==
    /\ phase = "graph"
    /\ ~panicked
    /\ Scheduled(v)
    /\ ~pass[v].ran
    /\ pass' = [pass EXCEPT
                  ![v] = [NodeRun(v, res, current) EXCEPT
                            !.available = AllAvailable(v, res)]]
    /\ panicked' = (NodeRun(v, res, current).result # "Ok")
    /\ UNCHANGED <<phase, supported, host_extracts, changes, host_vars,
                   uniform, extracted, pipeline_id, cache_vars, skipped,
                   log_vars>>

Run(v, res, current) ==
    /\ RunView(v, res, current)
    /\ UNCHANGED kernel_vars

\* The same step, with what the node was handed noted beside its record.
RunObserved(v, res, current) ==
    /\ RunView(v, res, current)
    /\ found' = [found EXCEPT ![v] = Some(res)]
    /\ UNCHANGED <<params, snapshot, fragment>>

\* The frame ends once the graph has run the node for every scheduled view.
FrameEnd ==
    /\ phase = "graph"
    /\ ~panicked
    /\ \A v \in Views : Scheduled(v) => pass[v].ran
    /\ phase' = "main"
    /\ skipped' = [v \in Views |-> pass[v].ran /\ ~pass[v].drew]
    /\ pass' = [v \in Views |-> NoPass]
    /\ extracted' = [v \in Views |-> 0]
    /\ UNCHANGED <<supported, host_extracts, changes, host_vars, uniform,
                   pipeline_id, cache_vars, log_vars, panicked>>

EndFrame ==
    /\ FrameEnd
    /\ UNCHANGED kernel_vars

\* The same step; the notes of the frame go with its records.
EndFrameObserved ==
    /\ FrameEnd
    /\ found' = [v \in Views |-> {}]
    /\ UNCHANGED <<params, snapshot, fragment>>

\* ------------------------------------------------------ snapshot and kernel

\* The values a threshold and a gradient take (in tenths): every ordering of
\* a gradient and a threshold occurs among them.
Thresholds == {0, 1}
Gradients == {0, 1, 2}

\* The values steep_angle_multiplier takes (in tenths of its range [0, 1]).
Multipliers == {0, 10}

\* The colours edge_color takes: a grey in sRGB and a grey in linear RGB.
Colors ==
    { [space |-> "Srgba", level |-> 128],
      [space |-> "LinearRgba", level |-> 128] }

\* The value parameters of an EdgeDetection component.
EdgeDetectionParams ==
    [depth_threshold : Thresholds, normal_threshold : Thresholds,
     color_threshold : Thresholds, edge_color : Colors,
     steep_angle_threshold : Thresholds]

\* Color -> LinearRgba (edge_color.into()): a colour given in sRGB is gamma
\* decoded, a colour given in linear RGB is taken as it is.
ToLinearRgba(c) ==
    IF c.space = "LinearRgba" THEN c.level
    ELSE IF c.level = 0 THEN 0
    ELSE IF c.level = 128 THEN 55
    ELSE 255

\* impl From<&EdgeDetection> for EdgeDetectionUniform
FromEdgeDetection(e) ==
    [depth_threshold       |-> e.depth_threshold,
     normal_threshold      |-> e.normal_threshold,
     color_threshold       |-> e.color_threshold,
     steep_angle_threshold |-> e.steep_angle_threshold,
     edge_color            |-> ToLinearRgba(e.edge_color)]

\* What the kernel samples at a pixel: the source colour (linear), the
\* gradient magnitude of each channel, and the angle between the view
\* direction and the surface normal.
Pixels ==
    [src : {128}, depth : Gradients, normal : Gradients, color : Gradients,
     angle : Thresholds]

\* The application moves the sliders of its settings window: every value
\* parameter changes.
Moved(e) ==
    [depth_threshold       |-> 1 - e.depth_threshold,
     normal_threshold      |-> 1 - e.normal_threshold,
     color_threshold       |-> 1 - e.color_threshold,
     steep_angle_threshold |-> 1 - e.steep_angle_threshold,
     edge_color            |-> CHOOSE c \in Colors : c # e.edge_color]

\* #ifdef: the definition is among the shader definitions of the variant.
Defined(defs, d) == \E i \in DOMAIN defs : defs[i] = d

\* Steep-angle compensation: at a grazing view the depth gradient is scaled
\* down by the multiplier before it is compared.
Compensated(gradient, angle, steep_angle_threshold, multiplier) ==
    IF angle > steep_angle_threshold
    THEN (gradient * multiplier) \div 10
    ELSE gradient

\* The fragment shader of the variant with the shader definitions `defs`, for
\* the uniform `u` and the pixel `px`: each channel the variant was compiled
\* with compares its gradient with its threshold, and the pixel is an edge
\* when a channel trips.
Kernel(defs, u, multiplier, px) ==
    LET depth  == IF Defined(defs, "ENABLE_DEPTH")
                  THEN Compensated(px.depth, px.angle,
                                   u.steep_angle_threshold, multiplier)
                           > u.depth_threshold
                  ELSE FALSE
        normal == IF Defined(defs, "ENABLE_NORMAL")
                  THEN px.normal > u.normal_threshold ELSE FALSE
        color  == IF Defined(defs, "ENABLE_COLOR")
                  THEN px.color > u.color_threshold ELSE FALSE
        edge   == depth \/ normal \/ color
    IN  [edge |-> edge, color |-> IF edge THEN u.edge_color ELSE px.src]

\* The variant of `key` is requested, as prepare_edge_detection_pipelines
\* requests it for a view of that key, and the pipeline cache compiles it.
RequestVariant(key) ==
    /\ pipelines = <<>>
    /\ snapshot = {}
    /\ LET r == CacheLookup([cache |-> cache, pipelines |-> pipelines], key)
       IN  /\ cache' = r.cache
           /\ pipelines' = [i \in 1..Len(r.pipelines) |->
                               Attempt(r.pipelines[i], "Ok")]
           /\ lookups' = lookups \cup {<<key, r.id>>}
    /\ UNCHANGED <<view_vars, kernel_vars>>

\* The extraction converts the view's parameters into its uniform.
Snapshot ==
    /\ snapshot = {}
    /\ snapshot' = Some(FromEdgeDetection(params))
    /\ UNCHANGED <<frame_vars, params, fragment, found>>

\* The application changes the parameters after the extraction and before
\* the pass (the main world runs ahead of the render world).
ChangeParams ==
    /\ snapshot = Some(FromEdgeDetection(params))
    /\ fragment = {}
    /\ params' = Moved(params)
    /\ UNCHANGED <<frame_vars, snapshot, fragment, found>>

\* The draw of the pass runs the fragment shader of the compiled variant of
\* `key` for a pixel, with the view's uniform bound.  The uniform has no
\* multiplier: the kernel's is any value of its range.  The target format
\* and the kind of the prepass textures play no part in the classification:
\* the variants of the eight keys without HDR and MSAA are run.
Fragment(key, px, multiplier) ==
    /\ ~key.hdr /\ ~key.multisampled
    /\ get_render_pipeline(cache[key]) # {}
    /\ snapshot # {}
    /\ fragment = {}
    /\ LET pipeline == Unwrap(get_render_pipeline(cache[key]))
       IN  fragment' = Some([key        |-> key,
                             pixel      |-> px,
                             multiplier |-> multiplier,
                             uniform    |-> Unwrap(snapshot),
                             out        |-> Kernel(pipeline.shader_defs,
                                                   Unwrap(snapshot),
                                                   multiplier, px)])
    /\ UNCHANGED <<frame_vars, params, snapshot, found>>

\* ---------------------------------------------------------- specification

\* The frame cycle of an application that copies EdgeDetection to the render
\* world and leaves its views as they are, on a platform with depth-texture
\* sampling, with the node observed.
NodeInit ==
    /\ Init
    /\ supported
    /\ host_extracts

NodeNext ==
    \/ HostExtract
    \/ Extract
    \/ Prepare
    \/ ProcessQueue
    \/ \E v \in Views, res \in Resources, current \in {0, 1} :
          RunObserved(v, res, current)
    \/ EndFrameObserved

NodeSpec == NodeInit /\ [][NodeNext]_vars

KernelInit ==
    /\ FrameInit
    /\ supported
    /\ host_extracts
    /\ ed = [v \in Views |-> Some(EdgeDetectionDefault)]
    /\ params \in EdgeDetectionParams
    /\ snapshot = {}
    /\ fragment = {}
    /\ found = [v \in Views |-> {}]

KernelNext ==
    \/ \E key \in EdgeDetectionKey : RequestVariant(key)
    \/ Snapshot
    \/ ChangeParams
    \/ \E key \in EdgeDetectionKey, px \in Pixels, multiplier \in Multipliers :
          Fragment(key, px, multiplier)

KernelSpec == KernelInit /\ [][KernelNext]_vars

Next ==
    \/ \E v \in Views, e \in EdgeDetection : SetEdgeDetection(v, e)
    \/ \E v \in Views : RemoveEdgeDetection(v)
    \/ \E v \in Views, h, m \in BOOLEAN : SetViewFormat(v, h, m)
    \/ \E v \in Views : DespawnRenderEntity(v)
    \/ HostExtract
    \/ Extract
    \/ Prepare
    \/ ProcessQueue
    \/ \E v \in Views, res \in Resources, current \in {0, 1} :
          Run(v, res, current)
    \/ EndFrame

Spec == Init /\ [][Next]_vars

\* ----------------------------------------------------------------- claims

\* The frame's extraction has completed (and its preparation may have).
AfterExtract == phase \in {"prepare", "queue", "graph"}

\* The frame's pipeline preparation has completed.
AfterPrepare == phase \in {"queue", "graph"}

\* C1: cache determinism.  Over all the lookups prepare_edge_detection_
\* pipelines has made, in any number of frames and for any views, two lookups
\* with equal keys returned the same pipeline id and two lookups with
\* distinct keys returned distinct ids.
C1_CacheDeterminism ==
    \A a, b \in lookups : (a[1] = b[1]) <=> (a[2] = b[2])

\* Two distinct keys have been looked up, and a view that ran in the frame
\* before holds, after this frame's lookup, the first id the cache gave out.
C1_Witness ==
    /\ AfterPrepare
    /\ Cardinality(lookups) >= 2
    /\ \E v \in Views : skipped[v] /\ PrepareQuery(v) /\ pipeline_id[v] = 1

\* C2: a pass that ran drew if and only if the view's pipeline was compiled,
\* both prepass textures were present and both uniform bindings were
\* available; a pass that drew recorded the full-screen draw, and a pass that
\* skipped recorded no command.
C2_DrawIffAvailable ==
    \A v \in Views :
        pass[v].ran =>
            /\ pass[v].drew <=> pass[v].available
            /\ pass[v].drew => pass[v].commands = PassCommands
            /\ ~pass[v].drew => pass[v].commands = <<>>

\* In one frame the pass drew for one view and skipped for the other.
C2_Witness ==
    \E v, w \in Views :
        /\ pass[v].ran /\ pass[v].drew
        /\ pass[w].ran /\ ~pass[w].drew

\* C3: the node returns Ok whatever is present or missing, so a skip never
\* ends the run of the render graph: the application is not aborted by it.
C3_RunReturnsOk ==
    /\ \A v \in Views : pass[v].ran => pass[v].result = "Ok"
    /\ (\E v \in Views : pass[v].ran /\ ~pass[v].drew) => ~panicked

\* The pass skipped a view for a missing prepass texture, returned Ok, and
\* drew for the other view of the frame.
C3_Witness ==
    \E v, w \in Views :
        /\ pass[v].ran /\ pass[v].skipped_at = "prepass"
        /\ pass[v].result = "Ok"
        /\ pass[w].drew

\* C4: in every draw the shader's input (post_process.source) and the render
\* target (post_process.destination) are different buffers, and the view's
\* main texture after the pass is the destination, whichever of the two
\* buffers was current when the node ran.
C4_PingPong ==
    \A v \in Views :
        pass[v].drew =>
            /\ pass[v].source # {}
            /\ pass[v].destination # {}
            /\ pass[v].source # pass[v].destination
            /\ pass[v].main_texture = pass[v].destination

\* In one frame the pass drew from buffer 1 into buffer 0 for one view, and
\* from buffer 0 into buffer 1 for the other.
C4_Witness ==
    \E v, w \in Views :
        /\ pass[v].drew /\ pass[v].source = {1} /\ pass[v].destination = {0}
        /\ pass[w].drew /\ pass[w].source = {0} /\ pass[w].destination = {1}

\* C5: on a platform with depth-texture sampling, once the extraction of a
\* frame has completed every view with an EdgeDetection component has an
\* EdgeDetectionUniform, inserted exactly once in this frame, and no view
\* without the component has one; a pass only ever runs for a view whose
\* uniform this frame's extraction has inserted before.
C5_SnapshotPerView ==
    /\ (supported /\ AfterExtract) =>
          \A v \in Views :
              /\ ed[v] # {} => uniform[v] /\ extracted[v] = 1
              /\ ed[v] = {} => ~uniform[v] /\ extracted[v] = 0
    /\ \A v \in Views : pass[v].ran => AfterExtract /\ extracted[v] = 1

\* The pass has run for a view with the component while the other view,
\* without the component, has no uniform.
C5_Witness ==
    \E v, w \in Views :
        /\ supported /\ ed[v] # {} /\ pass[v].ran /\ extracted[v] = 1
        /\ ed[w] = {} /\ ~uniform[w]

\* The key of a view as the application configures it: the toggles of its
\* EdgeDetection component, its HDR flag and its MSAA state.
ConfiguredKey(v) == EdgeDetectionKeyNew(Unwrap(ed[v]), hdr[v], msaa[v])

\* C6 (as claimed): on a platform with depth sampling, in every frame whose
\* extraction and preparation have completed, a view with an EdgeDetection
\* component has a pipeline id attached and is run by the node, and the pass
\* draws when the pipeline is compiled and the resources are there.
C6_EndToEnd ==
    \A v \in Views :
        (supported /\ phase = "graph" /\ ed[v] # {}) =>
            /\ pipeline_id[v] # NoId
            /\ ViewQuery(v)
            /\ (pass[v].ran /\ pass[v].available) => pass[v].drew

\* C7: without depth-texture sampling no view ever gets an
\* EdgeDetectionUniform, the pass never runs (so never draws) for any view,
\* the diagnostic has been emitted at most once (exactly once after the
\* first extraction), and nothing panics.
C7_Unsupported ==
    ~supported =>
        /\ \A v \in Views : ~uniform[v] /\ extracted[v] = 0
        /\ \A v \in Views : ~pass[v].ran /\ ~pass[v].drew
        /\ diagnostics <= 1
        /\ logged => diagnostics = 1
        /\ ~panicked

\* A frame has reached the render graph on an unsupported platform, with a
\* view that has the component and whose render entity is gone: the
\* diagnostic was emitted, nothing was extracted and nothing panicked.
C7_Witness ==
    /\ ~supported
    /\ phase = "graph"
    /\ diagnostics = 1
    /\ \E v \in Views : ed[v] # {} /\ ~synced[v]

\* C8 (as claimed): nothing aborts the application.
C8_NeverAborts == ~panicked

\* C9 (as claimed): in every frame that has been prepared, a view with an
\* EdgeDetection component holds the pipeline id of the key built from its
\* current toggles, HDR flag and MSAA state, and a pass that draws uses the
\* pipeline specialized for that key.
C9_CurrentKey ==
    \A v \in Views :
        (supported /\ AfterPrepare /\ ed[v] # {}) =>
            /\ pipeline_id[v] # NoId
            /\ pipeline_id[v] = cache[ConfiguredKey(v)]
            /\ pass[v].drew =>
                  pipelines[pass[v].pipeline].descriptor
                      = specialize(ConfiguredKey(v))

\* C10: a skip leaves nothing behind.  A frame does not end before the node
\* has run again for every view it skipped in the frame before and that
\* still has the components of the node's query, and that run draws when the
\* pipeline is compiled and the resources are there.
C10_SkipIsPerFrame ==
    [][ (phase = "graph" /\ phase' = "main") =>
            \A v \in Views :
                (skipped[v] /\ ViewQuery(v)) =>
                    /\ pass[v].ran
                    /\ pass[v].available => pass[v].drew ]_vars

\* The pass draws for a view it skipped in the frame before.
C10_Witness ==
    \E v \in Views : skipped[v] /\ pass[v].drew

\* The state of the pipeline a view's EdgeDetectionPipelineId names.
PipelineState(v) ==
    IF pipeline_id[v] \in 1..Len(pipelines)
    THEN pipelines[pipeline_id[v]].state ELSE "none"

\* A failed variant's error is in the log exactly once, no other variant has
\* one, a pass that runs for a view of a failed variant does not draw, and a
\* pass that runs for a view of a compiled variant with its resources draws.
FailedVariantSkips ==
    /\ \A i \in 1..Len(pipelines) :
          pipelines[i].errors = IF pipelines[i].state = "Err" THEN 1 ELSE 0
    /\ \A v \in Views :
          pass[v].ran =>
              /\ PipelineState(v) = "Err" =>
                    ~pass[v].drew /\ pass[v].skipped_at = "pipeline"
              /\ (PipelineState(v) = "Ok" /\ pass[v].available) => pass[v].drew

\* C11: a variant whose compilation failed stays failed, is never attempted
\* again and is logged once: no step changes its entry.  In every frame the
\* pass skips the views whose pipeline id names it, while the views of the
\* compiled variants draw; a view leaves the failed variant only by getting
\* another pipeline id, which takes another key.
C11_FailedVariant ==
    [][ /\ FailedVariantSkips
        /\ FailedVariantSkips'
        /\ \A i \in 1..Len(pipelines) :
              pipelines[i].state = "Err" => pipelines'[i] = pipelines[i]
        /\ \A v \in Views :
              (PipelineState(v) = "Err" /\ pipeline_id'[v] # pipeline_id[v]
                 /\ pipeline_id'[v] # NoId)
              => \E k \in EdgeDetectionKey :
                    /\ cache'[k] = pipeline_id'[v]
                    /\ cache[k] # pipeline_id[v] ]_vars

\* A view whose variant failed was skipped in the frame before and is
\* skipped again in this one, while the other view, of a compiled variant,
\* draws.
C11_Witness ==
    \E v, w \in Views :
        /\ skipped[v] /\ pass[v].ran /\ pass[v].skipped_at = "pipeline"
        /\ PipelineState(v) = "Err"
        /\ pass[w].drew /\ PipelineState(w) = "Ok"

\* The keys the cache holds an entry for.
CachedKeys == {k \in EdgeDetectionKey : cache[k] # NoId}

\* The cache holds an entry exactly for the keys that have been requested,
\* one specialization has been made per entry, each entry names the pipeline
\* specialized for its key, and there are at most 2^5 entries.
CacheIsLazy ==
    /\ CachedKeys = {l[1] : l \in lookups}
    /\ Len(pipelines) = Cardinality(CachedKeys)
    /\ Cardinality(CachedKeys) <= 32
    /\ \A k \in CachedKeys :
          /\ cache[k] \in 1..Len(pipelines)
          /\ pipelines[cache[k]].descriptor = specialize(k)

\* C12: the cache is lazy and monotone.  A variant is specialized once, on
\* the first request for its key; no step removes or replaces an entry or
\* alters the descriptor of a specialized variant, so the set of cached keys
\* only grows, within the 32 keys there are.
C12_LazyMonotoneCache ==
    [][ /\ CacheIsLazy
        /\ CacheIsLazy'
        /\ \A k \in CachedKeys : cache'[k] = cache[k]
        /\ Len(pipelines') >= Len(pipelines)
        /\ \A i \in 1..Len(pipelines) :
              pipelines'[i].descriptor = pipelines[i].descriptor ]_vars

\* Two views of different keys went through a frame, and this frame's
\* preparation has given each the entry made for it then: two entries, two
\* specializations.
C12_Witness ==
    /\ phase = "queue"
    /\ Len(pipelines) = 2
    /\ \E v, w \in Views :
          /\ skipped[v] /\ skipped[w]
          /\ pipeline_id[v] = 1 /\ pipeline_id[w] = 2
          /\ cache[ViewKey(v)] = 1 /\ cache[ViewKey(w)] = 2

\* The entries of the cache are whole: no two pipelines were specialized for
\* one descriptor, and every pipeline id a view holds is the entry of a key.
EntriesAreWhole ==
    /\ \A i, j \in 1..Len(pipelines) :
          pipelines[i].descriptor = pipelines[j].descriptor => i = j
    /\ \A v \in Views :
          pipeline_id[v] # NoId =>
              /\ pipeline_id[v] \in 1..Len(pipelines)
              /\ \E k \in EdgeDetectionKey :
                    /\ cache[k] = pipeline_id[v]
                    /\ pipelines[pipeline_id[v]].descriptor = specialize(k)

\* C13: single writer.  Only the step of prepare_edge_detection_pipelines
\* changes the key index or adds a pipeline; while the render graph runs the
\* node for the views, in any order, the cache and the pipelines stay as they
\* are; and the prepare step, whatever order it takes the views in, leaves
\* one entry per key and gives every view a whole entry.
C13_SingleWriter ==
    [][ /\ (cache' # cache \/ Len(pipelines') # Len(pipelines))
              => (phase = "prepare" /\ phase' = "queue")
        /\ phase = "graph" => (cache' = cache /\ pipelines' = pipelines)
        /\ EntriesAreWhole' ]_vars

\* The node has run for both views of a frame whose preparation inserted
\* their two entries taking the second view first.
C13_Witness ==
    /\ phase = "graph"
    /\ pass[1].ran /\ pass[2].ran
    /\ ~skipped[1] /\ ~skipped[2]
    /\ pipeline_id[1] = 2 /\ pipeline_id[2] = 1

\* C14: a fragment shaded by the variant of a key with the three toggles off
\* is no edge and its output is the source colour sample, whatever the
\* thresholds, the edge colour, the multiplier and the gradients are.
C14_PassThrough ==
    \A f \in fragment :
        (~f.key.enable_depth /\ ~f.key.enable_normal /\ ~f.key.enable_color)
        => (~f.out.edge /\ f.out.color = f.pixel.src)

\* The variant with the three toggles off has shaded a pixel whose three
\* gradients are above thresholds of zero, with an edge colour other than
\* the source colour.
C14_Witness ==
    \E f \in fragment :
        /\ ~f.key.enable_depth /\ ~f.key.enable_normal /\ ~f.key.enable_color
        /\ f.pixel.depth = 2 /\ f.pixel.normal = 2 /\ f.pixel.color = 2
        /\ f.pixel.angle = 0
        /\ f.uniform.depth_threshold = 0 /\ f.uniform.normal_threshold = 0
        /\ f.uniform.color_threshold = 0
        /\ f.uniform.edge_color # f.pixel.src
        /\ f.out.color = f.pixel.src

\* The channels of the fragment `f` that are enabled by the toggles of its
\* key and whose gradient (compensated, for depth) is above its threshold.
Tripped(f) ==
    {ch \in {"depth", "normal", "color"} :
        \/ /\ ch = "depth" /\ f.key.enable_depth
           /\ Compensated(f.pixel.depth, f.pixel.angle,
                           f.uniform.steep_angle_threshold, f.multiplier)
                  > f.uniform.depth_threshold
        \/ ch = "normal" /\ f.key.enable_normal
              /\ f.pixel.normal > f.uniform.normal_threshold
        \/ ch = "color" /\ f.key.enable_color
              /\ f.pixel.color > f.uniform.color_threshold}

\* C15: a fragment is an edge, and its output the edge colour, exactly when a
\* channel its key enables has its gradient above its threshold; otherwise
\* its output is the source colour sample.  A channel the key disables plays
\* no part.
C15_EdgeIffEnabledChannelTrips ==
    \A f \in fragment :
        /\ f.out.edge <=> Tripped(f) # {}
        /\ f.out.color = IF Tripped(f) # {} THEN f.uniform.edge_color
                                            ELSE f.pixel.src

\* A fragment whose only enabled channel, depth, stays below its threshold
\* through the compensation while the two disabled channels are above
\* theirs: it is output as the source colour.
C15_Witness ==
    \E f \in fragment :
        /\ f.key.enable_depth /\ ~f.key.enable_normal /\ ~f.key.enable_color
        /\ f.pixel.depth = 2 /\ f.uniform.depth_threshold = 1
        /\ f.pixel.angle = 1 /\ f.uniform.steep_angle_threshold = 0
        /\ f.multiplier = 0
        /\ f.pixel.normal > f.uniform.normal_threshold
        /\ f.pixel.color > f.uniform.color_threshold
        /\ ~f.out.edge /\ f.out.color = f.pixel.src

\* The shader definitions a key asks for.
WantedDefs(k) ==
    {d \in {"ENABLE_DEPTH", "ENABLE_NORMAL", "ENABLE_COLOR", "MULTISAMPLED"} :
        \/ d = "ENABLE_DEPTH" /\ k.enable_depth
        \/ d = "ENABLE_NORMAL" /\ k.enable_normal
        \/ d = "ENABLE_COLOR" /\ k.enable_color
        \/ d = "MULTISAMPLED" /\ k.multisampled}

\* C16: the descriptor specialized for a requested key, whichever of the 32
\* keys it is, has exactly the shader definitions of the key's true flags,
\* each once, the HDR target format iff key.hdr, the multisampled bind-group
\* layout iff key.multisampled and the entry point "fragment"; and no other
\* key is specialized to the same descriptor.
C16_SpecializeByKey ==
    \A k \in EdgeDetectionKey :
        cache[k] # NoId =>
            LET d == pipelines[cache[k]].descriptor
            IN  /\ {d.shader_defs[i] : i \in DOMAIN d.shader_defs}
                      = WantedDefs(k)
                /\ Len(d.shader_defs) = Cardinality(WantedDefs(k))
                /\ (d.format = "TEXTURE_FORMAT_HDR") <=> k.hdr
                /\ d.format \in {"TEXTURE_FORMAT_HDR", "bevy_default"}
                /\ (d.layout = "layout_with_msaa") <=> k.multisampled
                /\ d.layout \in {"layout_with_msaa", "layout_without_msaa"}
                /\ d.entry_point = "fragment"
                /\ \A other \in EdgeDetectionKey :
                      specialize(other) = d => other = k

\* The variant of the key with HDR, MSAA, depth and colour but no normal
\* channel has been specialized.
C16_Witness ==
    \E k \in EdgeDetectionKey :
        /\ k.hdr /\ k.multisampled
        /\ k.enable_depth /\ ~k.enable_normal /\ k.enable_color
        /\ cache[k] # NoId
        /\ pipelines[cache[k]].descriptor.shader_defs
              = <<"ENABLE_DEPTH", "ENABLE_COLOR", "MULTISAMPLED">>

\* The order the claim gives for the checks of the node.
CheckOrder == <<"pipeline", "prepass", "view_uniforms", "ed_uniforms">>

\* What a check of the node looks for was there when it ran for the view.
Present(v, check) ==
    LET res == Unwrap(found[v])
    IN  CASE check = "pipeline"      -> PipelineState(v) = "Ok"
          [] check = "prepass"       -> res.depth /\ res.normal
          [] check = "view_uniforms" -> res.view_uniforms
          [] check = "ed_uniforms"   -> res.ed_uniforms

\* C17: a pass that skips leaves at the first check, in the order pipeline,
\* prepass textures, view uniforms, effect uniforms, whose resource is
\* missing, and has then neither started a post-process write (the main
\* texture is not flipped, no source and no destination were handed out)
\* nor created a bind group nor begun a render pass nor recorded a command;
\* a pass that flipped the main texture had passed the four checks.
C17_SkipLeavesViewUntouched ==
    \A v \in Views :
        pass[v].ran =>
            /\ found[v] # {}
            /\ ~pass[v].drew =>
                  /\ \E i \in DOMAIN CheckOrder :
                        /\ pass[v].skipped_at = CheckOrder[i]
                        /\ ~Present(v, CheckOrder[i])
                        /\ \A j \in 1..(i - 1) : Present(v, CheckOrder[j])
                  /\ ~pass[v].flipped
                  /\ pass[v].source = {} /\ pass[v].destination = {}
                  /\ pass[v].main_texture = {}
                  /\ pass[v].bind_group = <<>> /\ pass[v].offsets = <<>>
                  /\ pass[v].render_pass = {} /\ pass[v].draw = {}
                  /\ pass[v].commands = <<>>
            /\ pass[v].flipped =>
                  \A i \in DOMAIN CheckOrder : Present(v, CheckOrder[i])

\* One view was skipped at the view uniforms, with the prepass textures there
\* and the effect uniforms missing too; the other at the prepass textures,
\* with both uniform bindings missing; neither view's texture was flipped.
C17_Witness ==
    \E v, w \in Views :
        /\ pass[v].ran /\ pass[v].skipped_at = "view_uniforms"
        /\ found[v] = Some([depth |-> TRUE, normal |-> TRUE,
                            view_uniforms |-> FALSE, ed_uniforms |-> FALSE])
        /\ pass[w].ran /\ pass[w].skipped_at = "prepass"
        /\ found[w] = Some([depth |-> TRUE, normal |-> FALSE,
                            view_uniforms |-> FALSE, ed_uniforms |-> FALSE])
        /\ ~pass[v].flipped /\ ~pass[w].flipped

\* C18: a pass that draws records one draw, of three vertices and one
\* instance without an index buffer, in a render pass whose one colour
\* attachment is the destination of the post-process write and which has no
\* depth/stencil attachment, with a pipeline whose descriptor has no
\* depth/stencil state and no blending.
C18_FullScreenDraw ==
    \A v \in Views :
        pass[v].drew =>
            /\ Cardinality({i \in DOMAIN pass[v].commands :
                               pass[v].commands[i] = "draw"}) = 1
            /\ \A d \in pass[v].draw :
                  /\ d.vertices[2] - d.vertices[1] = 3
                  /\ d.instances[2] - d.instances[1] = 1
                  /\ ~d.indexed
            /\ pass[v].draw # {}
            /\ pass[v].render_pass # {}
            /\ \A rp \in pass[v].render_pass :
                  /\ Len(rp.color_attachments) = 1
                  /\ pass[v].destination = {rp.color_attachments[1].view}
                  /\ rp.depth_stencil_attachment = "None"
            /\ pipelines[pass[v].pipeline].descriptor.depth_stencil = "None"
            /\ pipelines[pass[v].pipeline].descriptor.blend = "None"

\* The pass drew for an HDR view into buffer 0.
C18_Witness ==
    \E v \in Views :
        /\ pass[v].drew /\ hdr[v] /\ pass[v].destination = {0}
        /\ pipelines[pass[v].pipeline].descriptor.format
              = "TEXTURE_FORMAT_HDR"

\* The slots of a sequence of bind-group or layout entries, in order.
Slots(entries) == [i \in DOMAIN entries |-> entries[i].slot]

\* C19: the bind group of a pass that draws has six entries, in the order
\* colour source, depth, normal, sampler, view uniforms, effect uniforms,
\* which is the order of the layout it is created with; its colour entry is
\* the source this pass's post-process write handed out, so it is of this
\* frame; and the dynamic offsets are the view's own view-uniform offset,
\* then the view's own effect-uniform index.
C19_BindGroupPerPass ==
    \A v \in Views :
        pass[v].drew =>
            /\ Slots(pass[v].bind_group)
                  = <<"color", "depth", "normal", "sampler", "view", "effect">>
            /\ Slots(pass[v].bind_group)
                  = Slots(layout_entries(pass[v].layout))
            /\ pass[v].bind_group[1].buffer = pass[v].source
            /\ pass[v].source # {}
            /\ Len(pass[v].offsets) = 2
            /\ pass[v].offsets[1] = [slot |-> "view", view |-> v]
            /\ pass[v].offsets[2] = [slot |-> "effect", view |-> v]

\* Both views drew in one frame, one with MSAA and one without, reading from
\* different buffers: two bind groups with different colour entries, each
\* with the offsets of its own view.
C19_Witness ==
    \E v, w \in Views :
        /\ pass[v].drew /\ pass[w].drew
        /\ pass[v].layout = "layout_with_msaa"
        /\ pass[w].layout = "layout_without_msaa"
        /\ pass[v].bind_group[1].buffer = {0}
        /\ pass[w].bind_group[1].buffer = {1}
        /\ pass[v].offsets[2].view = v /\ pass[w].offsets[2].view = w

\* The scalar parameters the claim says the snapshot copies unchanged.
CopiedUnchanged ==
    {"depth_threshold", "normal_threshold", "color_threshold",
     "steep_angle_threshold", "steep_angle_multiplier"}

\* C20 (as claimed): the uniform the extraction makes holds each of the
\* thresholds and steep-angle parameters as the EdgeDetection component has
\* it at that time, and its edge colour in linear RGB; no later step alters
\* it, and the fragment shader is handed it as it was extracted.
C20_SnapshotIsCopy ==
    [][ /\ (snapshot = {} /\ snapshot' # {}) =>
              \A u \in snapshot' :
                  /\ \A field \in CopiedUnchanged :
                        /\ field \in DOMAIN params
                        /\ field \in DOMAIN u
                        /\ u[field] = params[field]
                  /\ u.edge_color = ToLinearRgba(params.edge_color)
        /\ snapshot # {} => snapshot' = snapshot
        /\ \A f \in fragment' : {f.uniform} = snapshot ]_vars

\* C21: in every draw the bind-group layout the node picks from the view's
\* MSAA state is the layout the bound pipeline was specialized with, and it
\* is the multisampled one exactly when the view has MSAA; also in the first
\* frame after the view's MSAA state has changed.
C21_LayoutConsistency ==
    \A v \in Views :
        pass[v].drew =>
            /\ pass[v].pipeline \in 1..Len(pipelines)
            /\ pass[v].layout = pipelines[pass[v].pipeline].descriptor.layout
            /\ (pass[v].layout = "layout_with_msaa") <=> msaa[v]
            /\ Defined(pipelines[pass[v].pipeline].descriptor.shader_defs,
                       "MULTISAMPLED") <=> msaa[v]

\* A view went through a frame without MSAA, was then given MSAA, and the
\* pass draws for it in the next frame with the second pipeline and the
\* multisampled layout.
C21_Witness ==
    \E v \in Views :
        /\ skipped[v] /\ msaa[v] /\ changes = 1
        /\ pass[v].drew /\ pass[v].pipeline = 2
        /\ pass[v].layout = "layout_with_msaa"
        /\ pipelines[1].descriptor.layout = "layout_without_msaa"

=============================================================================
